---- MODULE Spec2Model ----
(***************************************************************************)
(* State-machine model of src/io/itk-dicom/charset.cpp: the DICOM          *)
(* Specific Character Set parser (setSpecificCharacterSet) and the         *)
(* ISO 2022 aware decoder (convertCharStringToUTF8) of                     *)
(* CharStringToUTF8Converter.                                              *)
(*                                                                         *)
(* A std::string holding a declaration is a sequence of characters; a      *)
(* character is a one-element TLA+ string, or a run of characters that     *)
(* holds neither a backslash nor whitespace, written as one string.        *)
(* A term of m_charsets is the TLA+ string its characters concatenate to.  *)
(* An input byte string is a sequence of byte values 0..255; offsets into  *)
(* it are 0-based as in the code.                                          *)
(***************************************************************************)
EXTENDS Integers, Sequences, FiniteSets, TLC

VARIABLES
    pc,            \* "new", "ready", inside a decode call "conv" / "finish" /
                   \* "done", "fault" (exception out of the parser), "crash"
    spcharsets,    \* argument of the last setSpecificCharacterSet call
    m_charsets,    \* CharStringToUTF8Converter::m_charsets
    str,           \* convertCharStringToUTF8: the input bytes (len = Len(str))
    copiedStr,     \* the strncpy'ed copy handed to iconv
    cd,            \* the iconv_t local: 0 unset, -1 = (iconv_t)-1, n > 0 a handle
    cdCharset,     \* source charset the handle cd was opened for
    nOpened,       \* number of handles iconv_open has returned in this call
    openHandles,   \* handles opened and not yet released
    closeLog,      \* every value passed to iconv_close in this call, in order
    result,        \* the output buffer filled by iconv
    fed,           \* every input offset handed to iconv, with the charset in use
    fragmentStart, \* the cursor of the multi-charset loop
    bailAt,        \* offset of the escape marker the scan bailed out at, or -1
    envFailed,     \* an iconv_open / iconv_close of this call has failed
    oob,           \* a read outside a string / buffer / vector has happened
    ret,           \* the returned std::string
    iconvCalls,    \* number of iconv() invocations of this call
    prev           \* what the caller kept of the last call that returned

vars == <<pc, spcharsets, m_charsets, str, copiedStr, cd, cdCharset, nOpened,
          openHandles, closeLog, result, fed, fragmentStart, bailAt,
          envFailed, oob, ret, iconvCalls, prev>>

decodeVars == <<str, copiedStr, cd, cdCharset, nOpened, openHandles, closeLog,
                result, fed, fragmentStart, bailAt, envFailed, ret, iconvCalls>>

----------------------------------------------------------------------------
(* Bounds of the model.                                                    *)

\* longest declaration (in characters) passed to setSpecificCharacterSet
MaxDeclLen == 4
\* longest input byte string passed to convertCharStringToUTF8
MaxLen == 4
\* longest payload before and after the escape sequence of a switching input
MaxFrag == 2
\* longest input of a caller that decodes the same input again
MaxReplayLen == 3
\* longest input, besides the switching inputs, of the calls followed to their end
MaxLiveLen == 2

----------------------------------------------------------------------------
(* Constants of the program.                                               *)

DEFAULT_ENCODING == "ISO_IR 6"
DEFAULT_ISO_2022_ENCODING == "ISO 2022 IR 6"
ASCII == "ASCII"
\* the null pointer returned for an unrecognized term
nullptr == "nullptr"

ESC == 27
NUL == 0
chDollar == 36
chLParen == 40
chRParen == 41
chMinus == 45
chSlash == 47
chA == 65
chB == 66
chC == 67
chD == 68
chF == 70
chG == 71
chH == 72
chI == 73
chJ == 74
chL == 76
chM == 77
chT == 84

Range(s) == {s[i] : i \in 1..Len(s)}

\* sequences over S of length at most n
SeqsUpTo(S, n) == UNION {[1..k -> S] : k \in 0..n}

\* the byte at 0-based offset i of s
At(s, i) == s[i + 1]

\* the std::string made of the characters of s
RECURSIVE Str(_)
Str(s) == IF s = <<>> THEN "" ELSE Head(s) \o Str(Tail(s))

----------------------------------------------------------------------------
(* CharsetCatalog                                                          *)

definedTermToIconvCharset(defTerm) ==
    IF defTerm = "ISO_IR 6" \/ defTerm = "ISO 2022 IR 6" THEN ASCII
    ELSE IF defTerm = "ISO_IR 100" \/ defTerm = "ISO 2022 IR 100" THEN "ISO-8859-1"
    ELSE IF defTerm = "ISO_IR 101" \/ defTerm = "ISO 2022 IR 101" THEN "ISO-8859-2"
    ELSE IF defTerm = "ISO_IR 109" \/ defTerm = "ISO 2022 IR 109" THEN "ISO-8859-3"
    ELSE IF defTerm = "ISO_IR 110" \/ defTerm = "ISO 2022 IR 110" THEN "ISO-8859-4"
    ELSE IF defTerm = "ISO_IR 144" \/ defTerm = "ISO 2022 IR 144" THEN "ISO-8859-5"
    ELSE IF defTerm = "ISO_IR 127" \/ defTerm = "ISO 2022 IR 127" THEN "ISO-8859-6"
    ELSE IF defTerm = "ISO_IR 126" \/ defTerm = "ISO 2022 IR 126" THEN "ISO-8859-7"
    ELSE IF defTerm = "ISO_IR 138" \/ defTerm = "ISO 2022 IR 138" THEN "ISO-8859-8"
    ELSE IF defTerm = "ISO_IR 148" \/ defTerm = "ISO 2022 IR 148" THEN "ISO-8859-9"
    ELSE IF defTerm = "ISO_IR 13" \/ defTerm = "ISO 2022 IR 13" THEN "SHIFT_JIS"
    ELSE IF defTerm = "ISO_IR 166" \/ defTerm = "ISO 2022 IR 166" THEN "TIS-620"
    ELSE IF defTerm = "ISO 2022 IR 87" THEN "ISO-2022-JP"
    ELSE IF defTerm = "ISO 2022 IR 159" THEN "ISO-2022-JP-1"
    ELSE IF defTerm = "ISO 2022 IR 149" THEN "EUC-KR"
    ELSE IF defTerm = "ISO 2022 IR 58" THEN "EUC-CN"
    ELSE IF defTerm = "ISO_IR 192" THEN "UTF-8"
    ELSE IF defTerm = "GB18030" THEN "GB18030"
    ELSE IF defTerm = "GBK" THEN "GBK"
    ELSE nullptr

\* seq holds the three bytes found at escSeq[0], escSeq[1], escSeq[2]
iso2022EscSelectCharset(seq) ==
    IF seq[1] = chLParen /\ seq[2] = chB THEN "ISO 2022 IR 6"
    ELSE IF seq[1] = chMinus /\ seq[2] = chA THEN "ISO 2022 IR 100"
    ELSE IF seq[1] = chMinus /\ seq[2] = chB THEN "ISO 2022 IR 101"
    ELSE IF seq[1] = chMinus /\ seq[2] = chC THEN "ISO 2022 IR 109"
    ELSE IF seq[1] = chMinus /\ seq[2] = chD THEN "ISO 2022 IR 110"
    ELSE IF seq[1] = chMinus /\ seq[2] = chL THEN "ISO 2022 IR 144"
    ELSE IF seq[1] = chMinus /\ seq[2] = chG THEN "ISO 2022 IR 127"
    ELSE IF seq[1] = chMinus /\ seq[2] = chF THEN "ISO 2022 IR 126"
    ELSE IF seq[1] = chMinus /\ seq[2] = chH THEN "ISO 2022 IR 138"
    ELSE IF seq[1] = chMinus /\ seq[2] = chM THEN "ISO 2022 IR 148"
    ELSE IF seq[1] = chMinus /\ (seq[2] = chI \/ seq[2] = chJ) THEN "ISO 2022 IR 13"
    ELSE IF seq[1] = chMinus /\ seq[2] = chT THEN "ISO 2022 IR 166"
    ELSE IF seq[1] = chDollar /\ seq[2] = chB THEN "ISO 2022 IR 87"
    ELSE IF seq[1] = chDollar /\ seq[2] = chLParen /\ seq[3] = chD THEN "ISO 2022 IR 159"
    ELSE IF seq[1] = chDollar /\ seq[2] = chRParen /\ seq[3] = chC THEN "ISO 2022 IR 149"
    ELSE IF seq[1] = chDollar /\ seq[2] = chRParen /\ seq[3] = chA THEN "ISO 2022 IR 58"
    ELSE IF (seq[1] = chRParen /\ seq[2] = chI) \/ (seq[1] = chLParen /\ seq[2] = chJ)
         THEN "ISO 2022 IR 13"
    ELSE ""

\* mutant: every sequence that starts with '$' taken to be three bytes long
iso2022EscSeqLength_dollarIsThree(seq) == IF seq[1] = chDollar THEN 3 ELSE 2

\* mutant: every escape sequence taken to be two bytes long
iso2022EscSeqLength_always2(seq) == 2

\* number of bytes the escape sequence occupies after the ESC byte
iso2022EscSeqLength(seq) ==
    IF seq[1] = chDollar /\ seq[2] >= chLParen /\ seq[2] <= chSlash THEN 3 ELSE 2

\* If not found, then pos == len
RECURSIVE findEsc(_, _, _)
findEsc(s, len, pos) ==
    IF pos < len /\ At(s, pos) # ESC THEN findEsc(s, len, pos + 1) ELSE pos

----------------------------------------------------------------------------
(* CharsetSetParser                                                        *)

isspace(c) == c \in {" ", "\t"}

\* while (start != end && std::isspace(*start)) ++start;
RECURSIVE skipLeading(_, _)
skipLeading(term, start) ==
    IF start # Len(term) /\ isspace(At(term, start))
    THEN skipLeading(term, start + 1)
    ELSE start

\* do { --end; } while (end != start && std::isspace(*end));
\* the position end stops at, or -1 once *end is read before term.begin()
RECURSIVE skipTrailing(_, _, _)
skipTrailing(term, start, end) ==
    LET e == end - 1 IN
    IF e = start THEN e
    ELSE IF e < 0 THEN -1
    ELSE IF isspace(At(term, e)) THEN skipTrailing(term, start, e)
    ELSE e

\* The outcomes of trimWhitespace(term).  When the loop reads *end before
\* term.begin() the byte found there is arbitrary: if it is not whitespace
\* the loop stops with end + 1 == begin, and std::string(start, end + 1) is
\* the empty string when start == begin and an inverted range (length_error)
\* otherwise; if it is whitespace end moves further down and the range is
\* inverted.
trimWhitespace(term) ==
    LET start == skipLeading(term, 0)
        end == skipTrailing(term, start, Len(term))
    IN  IF end >= 0
        THEN {[ok |-> TRUE, val |-> SubSeq(term, start + 1, end + 1), oob |-> FALSE]}
        ELSE IF start = 0
        THEN {[ok |-> TRUE, val |-> <<>>, oob |-> TRUE],
              [ok |-> FALSE, val |-> <<>>, oob |-> TRUE]}
        ELSE {[ok |-> FALSE, val |-> <<>>, oob |-> TRUE]}

normalizeTerm(term) == trimWhitespace(term)

\* mutant: an empty stream yields one empty token
RECURSIVE getlineTokens_emptyYieldsToken(_)
getlineTokens_emptyYieldsToken(s) ==
    LET delims == {i \in 1..Len(s) : s[i] = "\\"} IN
    IF delims = {} THEN <<s>>
    ELSE LET d == CHOOSE i \in delims : \A j \in delims : i <= j IN
         <<SubSeq(s, 1, d - 1)>>
             \o (IF d = Len(s) THEN <<>>
                 ELSE getlineTokens_emptyYieldsToken(SubSeq(s, d + 1, Len(s))))

\* the tokens std::getline(tokStream, token, '\\') yields until it fails
RECURSIVE getlineTokens(_)
getlineTokens(s) ==
    IF s = <<>> THEN <<>>
    ELSE LET delims == {i \in 1..Len(s) : s[i] = "\\"} IN
         IF delims = {} THEN <<s>>
         ELSE LET d == CHOOSE i \in delims : \A j \in delims : i <= j IN
              <<SubSeq(s, 1, d - 1)>> \o getlineTokens(SubSeq(s, d + 1, Len(s)))

\* mutant: a token of the default table is appended like any recognized term
pushToken_keepsDefaultTable(charsets, token, count) ==
    IF token = "" /\ count = 0
    THEN charsets \o <<DEFAULT_ENCODING, DEFAULT_ISO_2022_ENCODING>>
    ELSE IF token \notin Range(charsets)
    THEN LET chname == definedTermToIconvCharset(token) IN
         IF chname # nullptr
         THEN Append(charsets, token)
         ELSE charsets
    ELSE charsets

\* mutant: a token already in the set is looked up and appended again
pushToken_noDuplicateCheck(charsets, token, count) ==
    IF token = "" /\ count = 0
    THEN charsets \o <<DEFAULT_ENCODING, DEFAULT_ISO_2022_ENCODING>>
    ELSE LET chname == definedTermToIconvCharset(token) IN
         IF chname # nullptr /\ chname # ASCII
         THEN Append(charsets, token)
         ELSE charsets

\* the body of the while loop for one normalized token
pushToken(charsets, token, count) ==
    IF token = "" /\ count = 0
    THEN charsets \o <<DEFAULT_ENCODING, DEFAULT_ISO_2022_ENCODING>>
    ELSE IF token \notin Range(charsets)
    THEN LET chname == definedTermToIconvCharset(token) IN
         IF chname # nullptr /\ chname # ASCII
         THEN Append(charsets, token)
         ELSE charsets
    ELSE charsets

\* the working sets the token loop and the count == 0 fallback can leave
RECURSIVE parseLoop(_, _, _, _)
parseLoop(tokens, count, charsets, sawOob) ==
    IF tokens = <<>>
    THEN {[ok |-> TRUE,
           charsets |-> IF count = 0 THEN Append(charsets, DEFAULT_ENCODING)
                        ELSE charsets,
           oob |-> sawOob]}
    ELSE UNION {
           IF t.ok
           THEN parseLoop(Tail(tokens), count + 1,
                          pushToken(charsets, Str(t.val), count), sawOob \/ t.oob)
           ELSE {[ok |-> FALSE, charsets |-> charsets, oob |-> TRUE]}
           : t \in normalizeTerm(Head(tokens))}

\* mutant: the terms of the previous declaration are not cleared
parseDeclaration_noClear(value) ==
    parseLoop(getlineTokens(value), 0, m_charsets, FALSE)

\* m_charsets.clear() and the loop over the tokens of the declaration
parseDeclaration(value) == parseLoop(getlineTokens(value), 0, <<>>, FALSE)

----------------------------------------------------------------------------
(* The declarations and inputs the environment hands to the converter.     *)

\* every term definedTermToIconvCharset recognizes
DefinedTerms ==
    {"ISO_IR 6", "ISO 2022 IR 6", "ISO_IR 100", "ISO 2022 IR 100",
     "ISO_IR 101", "ISO 2022 IR 101", "ISO_IR 109", "ISO 2022 IR 109",
     "ISO_IR 110", "ISO 2022 IR 110", "ISO_IR 144", "ISO 2022 IR 144",
     "ISO_IR 127", "ISO 2022 IR 127", "ISO_IR 126", "ISO 2022 IR 126",
     "ISO_IR 138", "ISO 2022 IR 138", "ISO_IR 148", "ISO 2022 IR 148",
     "ISO_IR 13", "ISO 2022 IR 13", "ISO_IR 166", "ISO 2022 IR 166",
     "ISO 2022 IR 87", "ISO 2022 IR 159", "ISO 2022 IR 149", "ISO 2022 IR 58",
     "ISO_IR 192", "GB18030", "GBK"}

\* characters of the declarations the parser is explored with
DeclChars ==
    {"\\", " ", "ISO_IR 6", "ISO 2022 IR 6", "ISO_IR 100", "ISO 2022 IR 87", "FOO"}

\* declarations for the parser: every string of at most MaxDeclLen characters,
\* and every recognized term declared once and declared twice
DeclValues ==
    SeqsUpTo(DeclChars, MaxDeclLen)
      \cup {<<X>> : X \in DefinedTerms}
      \cup {<<X, "\\", X>> : X \in DefinedTerms}

\* declarations the decoder is explored with: empty, default term declared
\* explicitly, one plain term, implicit default plus one switching term,
\* three switching terms
Declarations ==
    {<<>>,
     <<"ISO_IR 6">>,
     <<"ISO_IR 100">>,
     <<"\\", "ISO 2022 IR 100">>,
     <<"ISO 2022 IR 100", "\\", "ISO 2022 IR 58", "\\", "ISO 2022 IR 87">>}

\* byte values of the inputs: NUL, ESC, '$', ')', '-', 'A', 'B'
Bytes == {NUL, ESC, chDollar, chRParen, chMinus, chA, chB}

Inputs == SeqsUpTo(Bytes, MaxLen)

\* what the memory past the copied input can hold
PadBytes == Bytes

\* inputs of the form P ESC seq S: payloads of at most MaxFrag bytes without
\* ESC around one escape sequence
PayloadBytes == {NUL, chA, chMinus}

Payloads == SeqsUpTo(PayloadBytes, MaxFrag)

\* ESC -A, ESC $)A, ESC (B, ESC $B
EscSeqs ==
    {<<chMinus, chA>>, <<chDollar, chRParen, chA>>, <<chLParen, chB>>,
     <<chDollar, chB>>}

SwitchInputs ==
    {P \o <<ESC>> \o q \o S : P \in Payloads \ {<<>>}, q \in EscSeqs, S \in Payloads}

\* inputs "A" ESC a b c that put every pair and triple of bytes the escape
\* table compares, and others, after an escape marker
EscInputs ==
    {<<chA, ESC, a, b, c>> :
        a \in {chLParen, chRParen, chMinus, chDollar},
        b \in {chLParen, chRParen, chSlash, chA, chB, chC, chD, chF, chG, chH,
               chI, chJ, chL, chM, chT},
        c \in {chA, chC, chD}}

\* inputs of the calls followed to their end: the switching inputs and every
\* input of at most MaxLiveLen bytes
LiveInputs == SwitchInputs \cup SeqsUpTo(Bytes, MaxLiveLen)

\* inputs of a caller that decodes the same input again
ReplayBytes == {ESC, chDollar, chA, chB}

ReplayInputs == SeqsUpTo(ReplayBytes, MaxReplayLen)

\* what m_charsets[0] can hold when the vector is empty
StaleTerms == {"", "ISO 2022 IR 100"}

----------------------------------------------------------------------------
(* The external converter (iconv) and the C string helpers.                *)

\* strncpy(copiedStr, str, len): copies up to the first NUL, pads with NUL
strncpy(s) ==
    [i \in 1..Len(s) |->
        IF \E j \in 1..(i - 1) : s[j] = NUL THEN NUL ELSE s[i]]

\* iconv(cd, ...): what the converter opened for charset emits for bytes;
\* the image of byte b under table charset is the unit [cs, b]
iconv(charset, bytes) ==
    [i \in 1..Len(bytes) |-> [cs |-> charset, b |-> bytes[i]]]

\* the offsets lo..hi-1 handed to the converter opened for charset
feed(charset, lo, hi) ==
    [i \in 1..(hi - lo) |-> [cs |-> charset, off |-> lo + i - 1]]

\* std::string(result.get()): the buffer up to its first NUL
cString(buf) ==
    LET nuls == {i \in 1..Len(buf) : buf[i].b = NUL} IN
    IF nuls = {} THEN buf
    ELSE SubSeq(buf, 1, (CHOOSE i \in nuls : \A j \in nuls : i <= j) - 1)

\* the escape bytes are left in the stream for these two converters
isIso2022Jp(charset) == charset = "ISO-2022-JP" \/ charset = "ISO-2022-JP-1"

\* how many bytes of escSeq iso2022EscSelectCharset inspects
selectReads(seq) ==
    IF seq[1] \notin {chLParen, chMinus, chDollar, chRParen} THEN 1
    ELSE IF seq[1] = chDollar /\ seq[2] \in {chLParen, chRParen} THEN 3
    ELSE 2

----------------------------------------------------------------------------
(* Initial state: no converter object constructed yet.                     *)

Rest ==
    /\ str = <<>>
    /\ copiedStr = <<>>
    /\ cd = 0
    /\ cdCharset = nullptr
    /\ nOpened = 0
    /\ openHandles = {}
    /\ closeLog = <<>>
    /\ result = <<>>
    /\ fed = <<>>
    /\ fragmentStart = 0
    /\ bailAt = -1
    /\ envFailed = FALSE
    /\ ret = <<>>
    /\ iconvCalls = 0

\* the caller has not decoded anything yet
noCall ==
    [has |-> FALSE, charsets |-> <<>>, str |-> <<>>, ret |-> <<>>, failed |-> FALSE]

Init ==
    /\ pc = "new"
    /\ spcharsets = <<>>
    /\ m_charsets = <<>>
    /\ oob = FALSE
    /\ prev = noCall
    /\ Rest

----------------------------------------------------------------------------
(* CharStringToUTF8Converter::setSpecificCharacterSet, also run by both    *)
(* constructors.                                                           *)

setSpecificCharacterSet(value) ==
    /\ pc \in {"new", "ready"}
    /\ \E r \in parseDeclaration(value) :
         /\ m_charsets' = r.charsets
         /\ oob' = r.oob
         /\ pc' = IF r.ok THEN "ready" ELSE "fault"
    /\ spcharsets' = value
    /\ UNCHANGED decodeVars

----------------------------------------------------------------------------
(* CharStringToUTF8Converter::convertCharStringToUTF8                      *)

\* where control goes when the while test is evaluated with cursor pos
loopTest(pos, len) == IF pos < len THEN "conv" ELSE "finish"

\* what m_charsets[0] evaluates to: the first term, or, on an empty vector
\* (a read outside its storage), a crash or whatever the storage holds
firstTerm ==
    IF Len(m_charsets) > 0
    THEN {[ok |-> TRUE, term |-> m_charsets[1], oob |-> FALSE]}
    ELSE {[ok |-> FALSE, term |-> "", oob |-> TRUE]}
           \cup {[ok |-> TRUE, term |-> t, oob |-> TRUE] : t \in StaleTerms}

\* the call up to the start of the conversion: resolve the initial charset,
\* open the first handle, copy the input
convertCharStringToUTF8(s) ==
    /\ pc = "ready"
    /\ \E first \in firstTerm :
         LET initialCharset == definedTermToIconvCharset(first.term) IN
         /\ oob' = first.oob
         /\ \/ \* m_charsets[0] crashes
               /\ ~first.ok
               /\ pc' = "crash"
               /\ str' = s
               /\ UNCHANGED <<copiedStr, cd, cdCharset, nOpened, openHandles,
                              envFailed, ret>>
            \/ \* unresolved initial charset: return {}
               /\ first.ok
               /\ initialCharset = nullptr
               /\ pc' = "done"
               /\ str' = s
               /\ ret' = <<>>
               /\ UNCHANGED <<copiedStr, cd, cdCharset, nOpened, openHandles,
                              envFailed>>
            \/ \* iconv_open fails: return {}
               /\ first.ok
               /\ initialCharset # nullptr
               /\ pc' = "done"
               /\ str' = s
               /\ cd' = -1
               /\ envFailed' = TRUE
               /\ ret' = <<>>
               /\ UNCHANGED <<copiedStr, cdCharset, nOpened, openHandles>>
            \/ \* iconv_open succeeds
               /\ first.ok
               /\ initialCharset # nullptr
               /\ pc' = IF Len(m_charsets) = 1 THEN "conv" ELSE loopTest(0, Len(s))
               /\ str' = s
               /\ copiedStr' = strncpy(s)
               /\ cd' = nOpened + 1
               /\ nOpened' = nOpened + 1
               /\ openHandles' = openHandles \cup {nOpened + 1}
               /\ cdCharset' = initialCharset
               /\ UNCHANGED <<envFailed, ret>>
    /\ UNCHANGED <<spcharsets, m_charsets, closeLog, result, fed,
                   fragmentStart, bailAt, iconvCalls>>

\* mutant: the single charset is handed the input up to the first escape
\* marker only
singleCharset_stopsAtEscape ==
    /\ pc = "conv"
    /\ Len(m_charsets) = 1
    /\ result' = result \o iconv(cdCharset,
                     SubSeq(copiedStr, 1, findEsc(str, Len(str), 0)))
    /\ fed' = fed \o feed(cdCharset, 0, findEsc(str, Len(str), 0))
    /\ iconvCalls' = iconvCalls + 1
    /\ pc' = "finish"
    /\ UNCHANGED <<spcharsets, m_charsets, str, copiedStr, cd, cdCharset,
                   nOpened, openHandles, closeLog, fragmentStart, bailAt,
                   envFailed, oob, ret>>

\* special case: only one charset, the whole input goes to iconv at once
singleCharset ==
    /\ pc = "conv"
    /\ Len(m_charsets) = 1
    /\ result' = result \o iconv(cdCharset, copiedStr)
    /\ fed' = fed \o feed(cdCharset, 0, Len(str))
    /\ iconvCalls' = iconvCalls + 1
    /\ pc' = "finish"
    /\ UNCHANGED <<spcharsets, m_charsets, str, copiedStr, cd, cdCharset,
                   nOpened, openHandles, closeLog, fragmentStart, bailAt,
                   envFailed, oob, ret>>

\* mutant: the escape bytes are skipped for every table
advance_alwaysSkips(pos, nextCharset, seqLength) == pos + seqLength + 1

\* mutant: the cursor is moved to the marker only when the escape bytes are
\* skipped
advance_cursorNotMovedToMarker(pos, nextCharset, seqLength) ==
    IF ~isIso2022Jp(nextCharset)
    THEN pos + seqLength + 1
    ELSE fragmentStart

\* the cursor after a successful switch to nextCharset at the marker at pos
advance(pos, nextCharset, seqLength) ==
    IF ~isIso2022Jp(nextCharset)
    THEN pos + seqLength + 1
    ELSE pos

\* how many of the bytes escSeq[0..2] at the marker at pos lie past the copy
padLength(pos) ==
    IF pos + 4 > Len(copiedStr) THEN pos + 4 - Len(copiedStr) ELSE 0

\* the three bytes at escSeq; bytes past the copied input are whatever pad holds
escBytes(pos, pad) ==
    LET mem == copiedStr \o pad IN
    <<At(mem, pos + 1), At(mem, pos + 2), At(mem, pos + 3)>>

\* what the code computes from escSeq
escLookup(escSeq) ==
    [nextTerm |-> iso2022EscSelectCharset(escSeq),
     seqLength |-> iso2022EscSeqLength(escSeq),
     reads |-> selectReads(escSeq)]

\* the contents of the n bytes past the copy that the lookup at the marker at
\* pos can tell apart: escSeq[2] is inspected only after '$' '(' or '$' ')',
\* so it is varied only there
padContents(pos, n) ==
    IF n = 0 THEN {<<>>}
    ELSE LET firstTwo == {SubSeq(pad, 1, n - 1) : pad \in [1..n -> PadBytes]} IN
         UNION {IF selectReads(escBytes(pos, p \o <<NUL>>)) = 3
                THEN {p \o <<c>> : c \in PadBytes}
                ELSE {p \o <<NUL>>} : p \in firstTwo}

\* the lookups possible at the marker at pos: one when the three bytes lie in
\* the copy, one per content of the memory past it otherwise
escLookups(pos) ==
    {escLookup(escBytes(pos, pad)) : pad \in padContents(pos, padLength(pos))}

\* mutant: the switch target is not looked up in m_charsets
isDeclaredTarget_noMembership(nextTerm, charsets) ==
    definedTermToIconvCharset(nextTerm) # nullptr

\* the test that lets a switch to nextTerm go ahead
isDeclaredTarget(nextTerm, charsets) ==
    /\ definedTermToIconvCharset(nextTerm) # nullptr
    /\ nextTerm \in Range(charsets)

\* one iteration of the while loop of the multi-charset path
multiCharsetStep ==
    /\ pc = "conv"
    /\ Len(m_charsets) # 1
    /\ LET len == Len(str)
           fragmentEnd == findEsc(str, len, fragmentStart + 1)
       IN
       /\ result' = result \o iconv(cdCharset,
                        SubSeq(copiedStr, fragmentStart + 1, fragmentEnd))
       /\ fed' = fed \o feed(cdCharset, fragmentStart, fragmentEnd)
       /\ iconvCalls' = iconvCalls + 1
       /\ \/ \* no escape marker left: the while test ends the loop
             /\ fragmentEnd >= len
             /\ fragmentStart' = fragmentEnd
             /\ pc' = loopTest(fragmentEnd, len)
             /\ UNCHANGED <<cd, cdCharset, nOpened, openHandles, closeLog,
                            bailAt, envFailed, oob>>
          \/ \* case: ISO 2022 escape encountered
             /\ fragmentEnd < len
             /\ \E esc \in escLookups(fragmentEnd) :
                  LET nextTerm == esc.nextTerm
                      nextCharset == definedTermToIconvCharset(nextTerm)
                      valid == isDeclaredTarget(nextTerm, m_charsets)
                  IN
                  /\ oob' = (oob \/ fragmentEnd + esc.reads >= len)
                  /\ \/ \* bailing because invalid charset
                        /\ ~valid
                        /\ fragmentStart' = fragmentEnd
                        /\ bailAt' = fragmentEnd
                        /\ pc' = "finish"
                        /\ UNCHANGED <<cd, cdCharset, nOpened, openHandles,
                                       closeLog, envFailed>>
                     \/ \* bailing because iconv_close
                        /\ valid
                        /\ closeLog' = Append(closeLog, cd)
                        /\ envFailed' = TRUE
                        /\ fragmentStart' = fragmentEnd
                        /\ pc' = "finish"
                        /\ UNCHANGED <<cd, cdCharset, nOpened, openHandles, bailAt>>
                     \/ \* bailing because iconv_open
                        /\ valid
                        /\ closeLog' = Append(closeLog, cd)
                        /\ openHandles' = openHandles \ {cd}
                        /\ cd' = -1
                        /\ envFailed' = TRUE
                        /\ fragmentStart' = fragmentEnd
                        /\ pc' = "finish"
                        /\ UNCHANGED <<cdCharset, nOpened, bailAt>>
                     \/ \* the switch succeeds
                        /\ valid
                        /\ closeLog' = Append(closeLog, cd)
                        /\ openHandles' = (openHandles \ {cd}) \cup {nOpened + 1}
                        /\ cd' = nOpened + 1
                        /\ nOpened' = nOpened + 1
                        /\ cdCharset' = nextCharset
                        /\ fragmentStart' =
                               advance(fragmentEnd, nextCharset, esc.seqLength)
                        /\ pc' = loopTest(
                               advance(fragmentEnd, nextCharset, esc.seqLength), len)
                        /\ UNCHANGED <<bailAt, envFailed>>
    /\ UNCHANGED <<spcharsets, m_charsets, str, copiedStr, ret>>

\* free(copiedStr); iconv_close(cd); return std::string(result.get());
finish ==
    /\ pc = "finish"
    /\ closeLog' = Append(closeLog, cd)
    /\ openHandles' = openHandles \ {cd}
    /\ ret' = cString(result)
    /\ pc' = "done"
    /\ UNCHANGED <<spcharsets, m_charsets, str, copiedStr, cd, cdCharset,
                   nOpened, result, fed, fragmentStart, bailAt, envFailed, oob,
                   iconvCalls>>

\* the caller takes the returned string; the locals of the call are gone
return ==
    /\ pc = "done"
    /\ pc' = "ready"
    /\ str' = <<>>
    /\ copiedStr' = <<>>
    /\ cd' = 0
    /\ cdCharset' = nullptr
    /\ nOpened' = 0
    /\ openHandles' = {}
    /\ closeLog' = <<>>
    /\ result' = <<>>
    /\ fed' = <<>>
    /\ fragmentStart' = 0
    /\ bailAt' = -1
    /\ envFailed' = FALSE
    /\ ret' = <<>>
    /\ iconvCalls' = 0
    /\ oob' = FALSE
    /\ UNCHANGED <<spcharsets, m_charsets>>

----------------------------------------------------------------------------
(* Specifications.                                                         *)

\* the converter object: constructed with a declaration, then used to decode
Next ==
    \/ UNCHANGED prev /\ \E value \in Declarations : setSpecificCharacterSet(value)
    \/ UNCHANGED prev /\ pc = "ready" /\ \E s \in Inputs : convertCharStringToUTF8(s)
    \/ UNCHANGED prev /\ singleCharset
    \/ UNCHANGED prev /\ multiCharsetStep
    \/ UNCHANGED prev /\ finish
    \/ UNCHANGED prev /\ return

Spec == Init /\ [][Next]_vars

\* the converter object decoding inputs with one embedded escape sequence
NextSwitch ==
    \/ UNCHANGED prev /\ \E value \in Declarations : setSpecificCharacterSet(value)
    \/ UNCHANGED prev /\ pc = "ready"
                      /\ \E s \in SwitchInputs : convertCharStringToUTF8(s)
    \/ UNCHANGED prev /\ singleCharset
    \/ UNCHANGED prev /\ multiCharsetStep
    \/ UNCHANGED prev /\ finish
    \/ UNCHANGED prev /\ return

SpecSwitch == Init /\ [][NextSwitch]_vars

\* the converter object decoding the switching inputs and every short input
NextLive ==
    \/ UNCHANGED prev /\ \E value \in Declarations : setSpecificCharacterSet(value)
    \/ UNCHANGED prev /\ pc = "ready"
                      /\ \E s \in LiveInputs : convertCharStringToUTF8(s)
    \/ UNCHANGED prev /\ singleCharset
    \/ UNCHANGED prev /\ multiCharsetStep
    \/ UNCHANGED prev /\ finish
    \/ UNCHANGED prev /\ return

\* a call that has started runs on: each statement of the method body is
\* executed once control reaches it
SpecLive ==
    /\ Init
    /\ [][NextLive]_vars
    /\ WF_vars(UNCHANGED prev /\ singleCharset)
    /\ WF_vars(UNCHANGED prev /\ multiCharsetStep)
    /\ WF_vars(UNCHANGED prev /\ finish)

\* the converter object decoding the inputs of EscInputs
NextEsc ==
    \/ UNCHANGED prev /\ \E value \in Declarations : setSpecificCharacterSet(value)
    \/ UNCHANGED prev /\ pc = "ready"
                      /\ \E s \in EscInputs : convertCharStringToUTF8(s)
    \/ UNCHANGED prev /\ singleCharset
    \/ UNCHANGED prev /\ multiCharsetStep
    \/ UNCHANGED prev /\ finish
    \/ UNCHANGED prev /\ return

SpecEsc == Init /\ [][NextEsc]_vars

\* the caller takes the returned string and keeps it with the input and the
\* working set it was decoded under
callerKeeps ==
    /\ return
    /\ prev' = [has |-> TRUE, charsets |-> m_charsets, str |-> str, ret |-> ret,
                failed |-> envFailed]

\* the converter object used by a caller that, once a call has returned,
\* decodes that same input again
NextTwice ==
    \/ UNCHANGED prev /\ \E value \in Declarations : setSpecificCharacterSet(value)
    \/ UNCHANGED prev /\ pc = "ready"
                      /\ \E s \in ReplayInputs :
                            /\ prev.has => s = prev.str
                            /\ convertCharStringToUTF8(s)
    \/ UNCHANGED prev /\ singleCharset
    \/ UNCHANGED prev /\ multiCharsetStep
    \/ UNCHANGED prev /\ finish
    \/ callerKeeps

SpecTwice == Init /\ [][NextTwice]_vars

\* the parser alone: construction with every declaration of DeclValues, and
\* re-declaration with every one of them of an object that holds one of
\* Declarations
NextParse ==
    \E value \in DeclValues :
        /\ pc = "new" \/ spcharsets \in Declarations
        /\ setSpecificCharacterSet(value)
        /\ UNCHANGED prev

SpecParse == Init /\ [][NextParse]_vars

----------------------------------------------------------------------------
(* Vocabulary of the properties.                                           *)

\* the offsets of the ESC bytes of s
escOffsets(s) == {i \in 0..(Len(s) - 1) : At(s, i) = ESC}

\* the switching term each escape sequence of EscSeqs selects (DICOM PS3.3
\* C.12.1.1.2)
seqTerm(q) ==
    IF q = <<chMinus, chA>> THEN "ISO 2022 IR 100"
    ELSE IF q = <<chDollar, chRParen, chA>> THEN "ISO 2022 IR 58"
    ELSE IF q = <<chLParen, chB>> THEN "ISO 2022 IR 6"
    ELSE "ISO 2022 IR 87"

japaneseMultibyteTerms == {"ISO 2022 IR 87", "ISO 2022 IR 159"}

\* the offset of the only ESC byte of the input
onlyEsc == CHOOSE k \in escOffsets(str) : TRUE

\* the input is P ESC q S with P non-empty and no ESC in P and S
switchForm(q) ==
    /\ Cardinality(escOffsets(str)) = 1
    /\ onlyEsc >= 1
    /\ Len(str) >= onlyEsc + 1 + Len(q)
    /\ SubSeq(str, onlyEsc + 2, onlyEsc + 1 + Len(q)) = q

\* a decode call has returned, no iconv_open / iconv_close having failed, for
\* an input P ESC q S under a working set of two or more terms that holds the
\* non-Japanese-multibyte term q selects
switchedBy(q) ==
    /\ pc = "done"
    /\ ~envFailed
    /\ Len(m_charsets) >= 2
    /\ switchForm(q)
    /\ seqTerm(q) \in Range(m_charsets)
    /\ seqTerm(q) \notin japaneseMultibyteTerms

\* convert(table of workingSet[0], P) followed by convert(table of T, S), and
\* exactly the offsets of P and of S handed to the converter, each under its
\* table
switchOutcome(q) ==
    LET k == onlyEsc
        P == SubSeq(str, 1, k)
        S == SubSeq(str, k + 2 + Len(q), Len(str))
        table0 == definedTermToIconvCharset(m_charsets[1])
        tableT == definedTermToIconvCharset(seqTerm(q))
    IN  /\ ret = iconv(table0, P) \o iconv(tableT, S)
        /\ fed = feed(table0, 0, k) \o feed(tableT, k + 1 + Len(q), Len(str))

----------------------------------------------------------------------------
(* C1 *)

\* C1 as stated: for every input P ESC seq(T) S, P non-empty, no ESC in P and
\* S, T a non-Japanese-multibyte term of a working set of two or more terms,
\* the output is convert(workingSet[0], P) followed by convert(T, S), and
\* neither the ESC byte nor the bytes of seq(T) reach the converter.
C1_AsStated == \A q \in EscSeqs : switchedBy(q) => switchOutcome(q)

\* C1 amended: the same, for inputs that also hold no 0x00 byte.
C1_SwitchMidString ==
    \A q \in EscSeqs :
        (switchedBy(q) /\ NUL \notin Range(str)) => switchOutcome(q)

\* a switch by the three-byte sequence ESC $)A between two non-empty payloads
C1_Witness ==
    /\ switchedBy(<<chDollar, chRParen, chA>>)
    /\ NUL \notin Range(str)
    /\ Len(str) > onlyEsc + 4
    /\ Len(ret) = Len(str) - 4

----------------------------------------------------------------------------
(* C2 *)

\* the escape marker the scan finds next from the cursor (Len(str) if none)
nextMarker == findEsc(str, Len(str), fragmentStart + 1)

\* the bytes after the marker at offset k select no term, or a term without
\* converter charset name, or a term that m_charsets does not hold, whatever
\* lies past the end of the input
invalidTargetAt(k) ==
    \A pad \in [1..(IF k + 4 > Len(str) THEN k + 4 - Len(str) ELSE 0) -> PadBytes] :
        LET mem == str \o pad
            t == iso2022EscSelectCharset(
                     <<At(mem, k + 1), At(mem, k + 2), At(mem, k + 3)>>)
        IN  \/ t = ""
            \/ definedTermToIconvCharset(t) = nullptr
            \/ t \notin Range(m_charsets)

\* in the multi-charset path (a working set of two or more terms) the
\* iteration that finds a marker with an invalid target aborts the scan:
\* nothing at or after the marker is converted, no handle is closed or opened
abortsAtInvalidTarget ==
    (/\ pc = "conv"
     /\ Len(m_charsets) >= 2
     /\ nextMarker < Len(str)
     /\ invalidTargetAt(nextMarker))
    => (/\ pc' = "finish"
        /\ bailAt' = nextMarker
        /\ nOpened' = nOpened
        /\ closeLog' = closeLog
        /\ \A i \in 1..Len(fed') : fed'[i].off < nextMarker)

\* C2 as stated: after an abort at an invalid switch target nothing more is
\* converted, the converter is not re-opened, and the returned text is
\* exactly the output accumulated from the fragments before the marker
\* (the returned text looked at in the calls that read nothing outside the
\* input).
C2_AsStated ==
    [][/\ abortsAtInvalidTarget
       /\ (pc = "finish" /\ bailAt >= 0 /\ Len(m_charsets) >= 2 /\ ~oob)
          => (/\ pc' = "done"
              /\ fed' = fed
              /\ nOpened' = nOpened
              /\ ret' = result)]_vars

\* C2 amended: the same, the returned text being the accumulated output up to
\* its first 0x00 byte.
C2_AbortKeepsPartialOutput ==
    [][/\ abortsAtInvalidTarget
       /\ (pc = "finish" /\ bailAt >= 0 /\ Len(m_charsets) >= 2)
          => (/\ pc' = "done"
              /\ fed' = fed
              /\ nOpened' = nOpened
              /\ result' = result
              /\ ret' = cString(result))]_vars

\* "A" ESC "--" under a working set of several terms: the scan has aborted at
\* offset 1 and returned the one converted byte
C2_Witness ==
    /\ pc = "done"
    /\ Len(m_charsets) >= 2
    /\ str = <<chA, ESC, chMinus, chMinus>>
    /\ bailAt = 1
    /\ ret = iconv(definedTermToIconvCharset(m_charsets[1]), <<chA>>)

----------------------------------------------------------------------------
(* C3 *)

\* C3 as stated (its last clause): in the multi-charset path no 0x1B byte is
\* handed to the converter while the active table is not one of the two
\* Japanese ISO-2022 variants, every ESC byte at any offset being taken as a
\* table switch.
C3_AsStated ==
    (pc = "done" /\ Len(m_charsets) >= 2)
    => \A i \in 1..Len(fed) :
           At(str, fed[i].off) = ESC => isIso2022Jp(fed[i].cs)

----------------------------------------------------------------------------
(* C5 *)

\* C5 as stated: a decode call on an empty working set returns empty output
\* without indexing the empty set, without opening a handle, without error.
C5_AsStated ==
    (Len(m_charsets) = 0 /\ pc \in {"conv", "finish", "done", "crash"})
    => (/\ pc = "done"
        /\ ret = <<>>
        /\ ~oob
        /\ nOpened = 0
        /\ cd = 0)

----------------------------------------------------------------------------
(* C9 *)

\* 7-bit bytes other than 0x00 and 0x1B
plainAscii(s) == \A i \in 1..Len(s) : s[i] < 128 /\ s[i] # NUL /\ s[i] # ESC

\* the text of converted units, a converter mapping ASCII bytes to themselves
asciiText(units) == [i \in 1..Len(units) |-> units[i].b]

\* C9 as stated: for every single declared term the catalog recognizes,
\* decoding a string of 7-bit bytes (no 0x00, no 0x1B) returns it unchanged.
C9_AsStated ==
    \A X \in DefinedTerms :
        (/\ spcharsets = <<X>>
         /\ pc \in {"done", "crash"}
         /\ ~envFailed
         /\ plainAscii(str))
        => (pc = "done" /\ asciiText(ret) = str)

----------------------------------------------------------------------------
(* C10 *)

\* C10 as stated: at most one handle is open at any time, every handle
\* opened is closed exactly once before the call returns, and iconv_close is
\* never given the failure value of iconv_open nor a handle a second time
\* (looked at in the calls that read nothing outside the input).
C10_AsStated ==
    ~oob =>
        /\ Cardinality(openHandles) <= 1
        /\ \A i \in 1..Len(closeLog) : closeLog[i] \in 1..nOpened
        /\ \A i, j \in 1..Len(closeLog) : i # j => closeLog[i] # closeLog[j]
        /\ pc = "done" => /\ openHandles = {}
                          /\ \A h \in 1..nOpened : h \in Range(closeLog)

----------------------------------------------------------------------------
(* C4 *)

\* C4 as stated: after setSpecificCharacterSet returns, whatever the
\* attribute value, m_charsets has at least one element.
C4_AsStated == pc = "ready" => Len(m_charsets) >= 1

----------------------------------------------------------------------------
(* C6 *)

\* C6: setSpecificCharacterSet on the empty attribute value returns and
\* leaves the working set exactly <<"ISO_IR 6">>.
C6_EmptyValueYieldsDefault ==
    (pc # "new" /\ spcharsets = <<>>)
    => (pc = "ready" /\ m_charsets = <<"ISO_IR 6">>)

\* the empty value has been declared
C6_Witness == pc = "ready" /\ spcharsets = <<>> /\ Len(m_charsets) = 1

----------------------------------------------------------------------------
(* C7 *)

\* how many times term x occurs in the working set
occurrences(charsets, x) == Cardinality({i \in 1..Len(charsets) : charsets[i] = x})

\* the two spellings of the default table
defaultTerms == {"ISO_IR 6", "ISO 2022 IR 6"}

\* C7 as stated: for every term X the catalog recognizes, the default terms
\* included, the value X backslash X yields a working set holding X exactly
\* once.
C7_AsStated ==
    \A X \in DefinedTerms :
        (pc # "new" /\ spcharsets = <<X, "\\", X>>)
        => (pc = "ready" /\ occurrences(m_charsets, X) = 1)

\* C7 amended: this holds for every recognized term other than the two
\* default terms; for those X backslash X yields a set that does not hold X.
C7_DuplicateSuppressed ==
    \A X \in DefinedTerms :
        (pc # "new" /\ spcharsets = <<X, "\\", X>>)
        => (/\ pc = "ready"
            /\ occurrences(m_charsets, X) = (IF X \in defaultTerms THEN 0 ELSE 1))

\* a non-default term has been declared twice
C7_Witness ==
    /\ pc = "ready"
    /\ spcharsets = <<"ISO 2022 IR 149", "\\", "ISO 2022 IR 149">>
    /\ m_charsets = <<"ISO 2022 IR 149">>

----------------------------------------------------------------------------
(* C8 *)

\* the characters of value before its first backslash
firstToken(value) ==
    LET delims == {i \in 1..Len(value) : value[i] = "\\"} IN
    IF delims = {} THEN value
    ELSE SubSeq(value, 1, (CHOOSE i \in delims : \A j \in delims : i <= j) - 1)

\* the value has a first token and trimming leaves nothing of it
firstTokenBlank(value) ==
    /\ value # <<>>
    /\ \A i \in 1..Len(firstToken(value)) : isspace(firstToken(value)[i])

\* C8 as stated: when the first token is empty after trimming the working
\* set starts with "ISO_IR 6", "ISO 2022 IR 6", which occur nowhere else in
\* it, and backslash "ISO_IR 100" yields exactly those two and "ISO_IR 100".
C8_AsStated ==
    (pc # "new" /\ firstTokenBlank(spcharsets))
    => (/\ pc = "ready"
        /\ Len(m_charsets) >= 2
        /\ m_charsets[1] = "ISO_IR 6"
        /\ m_charsets[2] = "ISO 2022 IR 6"
        /\ \A i \in 3..Len(m_charsets) : m_charsets[i] \notin defaultTerms
        /\ spcharsets = <<"\\", "ISO_IR 100">>
           => m_charsets = <<"ISO_IR 6", "ISO 2022 IR 6", "ISO_IR 100">>)

----------------------------------------------------------------------------
(* C11 *)

\* the call that has just returned decoded, under the same non-empty working
\* set, the input the caller decoded before, no iconv_open / iconv_close
\* having failed in either call
decodedAgain ==
    /\ pc = "done"
    /\ prev.has
    /\ prev.charsets = m_charsets
    /\ prev.str = str
    /\ Len(m_charsets) >= 1
    /\ ~envFailed
    /\ ~prev.failed

\* C11 as stated: decoding the same input twice on the same converter object
\* returns the same text both times, for every input (also when its last or
\* second-to-last byte is 0x1B).
C11_AsStated == decodedAgain => ret = prev.ret

----------------------------------------------------------------------------
(* C12 *)

\* C12: every iteration of the multi-charset loop strictly increases the
\* cursor fragmentStart (also when the table switched to is ISO-2022-JP or
\* ISO-2022-JP-1), the loop is left only with the cursor at or past the
\* length or at an abort, and every call that has started converting returns.
C12_CallTerminates ==
    /\ [][(pc = "conv" /\ Len(m_charsets) # 1)
          => (/\ fragmentStart' > fragmentStart
              /\ pc' = "finish"
                 => (fragmentStart' >= Len(str) \/ bailAt' >= 0 \/ envFailed'))]_vars
    /\ (pc \in {"conv", "finish"}) ~> (pc = "done")

\* a call has returned after a switch to ISO-2022-JP left the cursor on the
\* escape marker and the loop went round again
C12_Witness ==
    /\ pc = "done"
    /\ cdCharset = "ISO-2022-JP"
    /\ iconvCalls >= 2
    /\ bailAt = -1
    /\ ~envFailed
    /\ \E i \in 1..Len(fed) : fed[i].cs = "ISO-2022-JP" /\ At(str, fed[i].off) = ESC

----------------------------------------------------------------------------
(* C13 *)

\* C13: in a call under a working set of exactly one member (whose converter
\* opened) the converter is invoked exactly once, on the whole range
\* [0, length), with the one handle opened for workingSet[0]; no escape
\* marker is looked for and the handle is closed only at the end of the call,
\* whether or not the input holds 0x1B bytes.
C13_SingleCharsetOneConversion ==
    (Len(m_charsets) = 1 /\ pc \in {"conv", "finish", "done"} /\ ~envFailed)
    => LET table0 == definedTermToIconvCharset(m_charsets[1]) IN
       /\ nOpened = 1
       /\ cdCharset = table0
       /\ closeLog = (IF pc = "done" THEN <<1>> ELSE <<>>)
       /\ fragmentStart = 0
       /\ bailAt = -1
       /\ pc = "conv" => (iconvCalls = 0 /\ fed = <<>>)
       /\ pc \in {"finish", "done"}
          => (iconvCalls = 1 /\ fed = feed(table0, 0, Len(str)))

\* a call under a one-member working set has returned for an input with a
\* 0x1B byte in its middle
C13_Witness ==
    /\ pc = "done"
    /\ ~envFailed
    /\ m_charsets = <<"ISO_IR 100">>
    /\ Len(str) >= 3
    /\ At(str, 1) = ESC
    /\ Len(ret) = Len(str)

----------------------------------------------------------------------------
(* C14 *)

\* the step re-opens the converter: a table switch that succeeds
switches == nOpened' = nOpened + 1

\* C14: an iteration of the multi-charset loop hands the fragment from the
\* cursor to the marker to the current converter; when the switch at the
\* marker at offset fragmentEnd succeeds the cursor becomes fragmentEnd + 1 +
\* the escape sequence length (2 or 3) unless the new converter charset is
\* ISO-2022-JP or ISO-2022-JP-1, and then it stays at fragmentEnd; the steps
\* come in the order validate, close, open, advance: a target that is not
\* valid closes nothing, a close that fails opens nothing, and an open that
\* fails leaves the cursor on the marker.
C14_CursorAfterSwitch ==
    [][(pc = "conv" /\ Len(m_charsets) # 1)
       => LET fragmentEnd == findEsc(str, Len(str), fragmentStart + 1) IN
          /\ fed' = fed \o feed(cdCharset, fragmentStart, fragmentEnd)
          /\ switches
             => (/\ fragmentEnd < Len(str)
                 /\ \E t \in Range(m_charsets) :
                        cdCharset' = definedTermToIconvCharset(t)
                 /\ closeLog' = Append(closeLog, cd)
                 /\ cd' = nOpened + 1
                 /\ openHandles' = {cd'}
                 /\ IF cdCharset' \in {"ISO-2022-JP", "ISO-2022-JP-1"}
                    THEN fragmentStart' = fragmentEnd
                    ELSE /\ fragmentStart' \in {fragmentEnd + 3, fragmentEnd + 4}
                         /\ fragmentEnd + 4 <= Len(str)
                            => fragmentStart' = fragmentEnd + 1
                                  + iso2022EscSeqLength(escBytes(fragmentEnd, <<>>)))
          /\ bailAt' # bailAt
             => (closeLog' = closeLog /\ nOpened' = nOpened /\ pc' = "finish")
          /\ (closeLog' # closeLog /\ ~switches)
             => (fragmentStart' = fragmentEnd /\ pc' = "finish")]_vars

\* the three-byte sequence ESC $ ) A has switched the converter to EUC-CN and
\* the cursor stands on the first byte after it
C14_Witness ==
    /\ pc = "conv"
    /\ cdCharset = "EUC-CN"
    /\ switchForm(<<chDollar, chRParen, chA>>)
    /\ fragmentStart = onlyEsc + 4
    /\ closeLog = <<1>>
    /\ cd = 2

----------------------------------------------------------------------------
(* C15 *)

\* C15 as stated: a call under a working set of two or more terms never
\* reads a byte at an offset >= length, also when an escape marker is the
\* last byte of the input or is followed by fewer bytes than its escape
\* sequence needs.
C15_AsStated ==
    (Len(m_charsets) >= 2 /\ pc \in {"conv", "finish", "done"}) => ~oob

----------------------------------------------------------------------------
(* C16 *)

\* term without its leading and trailing whitespace
trimmed(term) ==
    LET keep == {i \in 1..Len(term) : ~isspace(term[i])} IN
    IF keep = {} THEN <<>>
    ELSE SubSeq(term, CHOOSE i \in keep : \A j \in keep : i <= j,
                      CHOOSE i \in keep : \A j \in keep : i >= j)

\* C16 as stated: for every token of the declaration, the empty token and a
\* token made only of whitespace included, trimWhitespace returns the token
\* without its leading and trailing whitespace and reads nothing outside the
\* token while doing so.
C16_AsStated ==
    pc # "new"
    => \A i \in 1..Len(getlineTokens(spcharsets)) :
           LET token == getlineTokens(spcharsets)[i] IN
           trimWhitespace(token)
               = {[ok |-> TRUE, val |-> trimmed(token), oob |-> FALSE]}

----------------------------------------------------------------------------
(* C17 *)

\* the terms of toks, in order of first occurrence, that are not in seen and
\* that the catalog maps to a converter charset other than ASCII
RECURSIVE acceptedTerms(_, _)
acceptedTerms(toks, seen) ==
    IF toks = <<>> THEN <<>>
    ELSE LET t == Head(toks) IN
         IF t \notin seen /\ definedTermToIconvCharset(t) \notin {nullptr, ASCII}
         THEN <<t>> \o acceptedTerms(Tail(toks), seen \cup {t})
         ELSE acceptedTerms(Tail(toks), seen)

\* the working set a declaration stands for: the default term for the empty
\* value, the two default terms and then the accepted terms when the first
\* token is blank, the accepted terms otherwise
declaredSet(value) ==
    LET tokens == getlineTokens(value)
        toks == [i \in 1..Len(tokens) |-> Str(trimmed(tokens[i]))]
    IN  IF tokens = <<>> THEN <<"ISO_IR 6">>
        ELSE IF toks[1] = ""
        THEN <<"ISO_IR 6", "ISO 2022 IR 6">> \o acceptedTerms(Tail(toks), defaultTerms)
        ELSE acceptedTerms(toks, {})

\* C17 as stated: for a value whose first token is not empty,
\* setSpecificCharacterSet returns with the working set equal to the trimmed
\* tokens, in order of first occurrence, that the catalog maps to a converter
\* charset other than ASCII.
C17_AsStated ==
    (pc # "new" /\ spcharsets # <<>> /\ ~firstTokenBlank(spcharsets))
    => (pc = "ready" /\ m_charsets = declaredSet(spcharsets))

----------------------------------------------------------------------------
(* C18 *)

\* C18: once setSpecificCharacterSet has run, the working set holds no term
\* twice, every term of it resolves to a converter charset name, "ISO_IR 6"
\* occurs at index 0 only and "ISO 2022 IR 6" at index 1 only; so the first
\* term of a non-empty working set is never unresolved.
C18_WorkingSetWellFormed ==
    pc # "new"
    => /\ \A i, j \in 1..Len(m_charsets) : i # j => m_charsets[i] # m_charsets[j]
       /\ \A i \in 1..Len(m_charsets) :
            /\ definedTermToIconvCharset(m_charsets[i]) # nullptr
            /\ m_charsets[i] = "ISO_IR 6" => i = 1
            /\ m_charsets[i] = "ISO 2022 IR 6" => i = 2
       /\ Len(m_charsets) >= 1 => definedTermToIconvCharset(m_charsets[1]) # nullptr

\* a declaration naming a term and then the default term has been parsed
C18_Witness ==
    /\ pc = "ready"
    /\ spcharsets = <<"ISO_IR 100", "\\", "ISO_IR 6">>
    /\ m_charsets = <<"ISO_IR 100">>

----------------------------------------------------------------------------
(* C19 *)

\* the switching spellings of the defined terms
switchingTerms ==
    {"ISO 2022 IR 6", "ISO 2022 IR 100", "ISO 2022 IR 101", "ISO 2022 IR 109",
     "ISO 2022 IR 110", "ISO 2022 IR 144", "ISO 2022 IR 127", "ISO 2022 IR 126",
     "ISO 2022 IR 138", "ISO 2022 IR 148", "ISO 2022 IR 13", "ISO 2022 IR 166",
     "ISO 2022 IR 87", "ISO 2022 IR 159", "ISO 2022 IR 149", "ISO 2022 IR 58"}

\* the terms the escape table selects by three bytes
threeByteTerms == {"ISO 2022 IR 159", "ISO 2022 IR 149", "ISO 2022 IR 58"}

\* the escape table and the length rule agree on the bytes seq
agreeOn(seq) ==
    LET term == iso2022EscSelectCharset(seq) IN
    term # ""
    => /\ term \in switchingTerms
       /\ definedTermToIconvCharset(term) # nullptr
       /\ iso2022EscSeqLength(seq) = (IF term \in threeByteTerms THEN 3 ELSE 2)

\* C19: for the bytes after every escape marker of the input that
\* iso2022EscSelectCharset recognizes, the term returned is a switching
\* spelling the catalog resolves, and iso2022EscSeqLength returns the number
\* of bytes the recognition matched: 3 for the '$' sequences whose second
\* byte is in '('..'/', 2 for all others, "$B" included.
C19_TableAndLengthAgree ==
    \A k \in escOffsets(str) :
        k + 4 <= Len(str)
        => agreeOn(<<At(str, k + 1), At(str, k + 2), At(str, k + 3)>>)

\* the converter has been switched by the three bytes $ ) A and the cursor
\* stands behind them
C19_Witness ==
    /\ pc = "finish"
    /\ str = <<chA, ESC, chDollar, chRParen, chA>>
    /\ cdCharset = "EUC-CN"
    /\ fragmentStart = 5
    /\ bailAt = -1

----------------------------------------------------------------------------
(* C20 *)

\* C20: whatever declarations and decode calls came before, once
\* setSpecificCharacterSet(v) has returned the working set is the one v
\* stands for, the set a freshly constructed converter for v has: no term of
\* an earlier declaration survives, and a decode call leaves it alone.  When
\* setSpecificCharacterSet(v) is left by an exception the working set is the
\* part of that set built so far, again without any earlier term.
C20_DeclarationReplaces ==
    /\ pc \in {"ready", "conv", "finish", "done", "crash"}
       => m_charsets = declaredSet(spcharsets)
    /\ pc = "fault"
       => /\ Len(m_charsets) <= Len(declaredSet(spcharsets))
          /\ m_charsets = SubSeq(declaredSet(spcharsets), 1, Len(m_charsets))

\* the object has decoded under a three-term working set and has then been
\* given a declaration of one other term
C20_Witness ==
    /\ pc = "ready"
    /\ prev.has
    /\ prev.charsets = <<"ISO 2022 IR 100", "ISO 2022 IR 58", "ISO 2022 IR 87">>
    /\ spcharsets = <<"ISO_IR 100">>
    /\ m_charsets = <<"ISO_IR 100">>

====
